---- MODULE Spec2Model ----
(***************************************************************************)
(* Model of rustls-cng src/store.rs: the CertStore wrapper around a        *)
(* Windows certificate store (open / from_pkcs12 / six find operations /   *)
(* Drop), together with the native primitives it drives.                   *)
(*                                                                         *)
(* A store handle slot h holds one CertStore value.  A call slot t is one  *)
(* thread of control running one search on a shared &CertStore; the steps  *)
(* of do_find are the native calls it makes, so that searches interleave   *)
(* at the granularity of the native calls.                                 *)
(***************************************************************************)
EXTENDS Integers, Sequences, FiniteSets, TLC

(* ----------------------------- bounds --------------------------------- *)
MaxSearches == 2

(* the variable that holds the program's CertStore; native stores do not  *)
(* interact, so one is followed from its construction to after its drop   *)
Handles == {1}
(* the two threads that share a &CertStore (CertStore is Send + Sync) *)
Calls == {1, 2}

(* ------------------------ program constants --------------------------- *)
CERT_SYSTEM_STORE_CURRENT_USER_ID == 1
CERT_SYSTEM_STORE_LOCAL_MACHINE_ID == 2
CERT_SYSTEM_STORE_CURRENT_SERVICE_ID == 4
CERT_SYSTEM_STORE_LOCATION_SHIFT == 16
CERT_STORE_OPEN_EXISTING_FLAG == 16384

CertStoreType == {"LocalMachine", "CurrentUser", "CurrentService"}

Pow2(n) == 2 ^ n

as_flags(store_type) ==
  CASE store_type = "LocalMachine" ->
         CERT_SYSTEM_STORE_LOCAL_MACHINE_ID * Pow2(CERT_SYSTEM_STORE_LOCATION_SHIFT)
    [] store_type = "CurrentUser" ->
         CERT_SYSTEM_STORE_CURRENT_USER_ID * Pow2(CERT_SYSTEM_STORE_LOCATION_SHIFT)
    [] store_type = "CurrentService" ->
         CERT_SYSTEM_STORE_CURRENT_SERVICE_ID * Pow2(CERT_SYSTEM_STORE_LOCATION_SHIFT)

(* `len() as u32`: the length modulo 2^32, computed on 16-bit halves *)
AsU32(n) == ((n \div 65536) % 65536) * 65536 + (n % 65536)

CRYPTOAPI_BLOB(bytes) == [cbData |-> AsU32(Len(bytes)), pbData |-> bytes]

(* the bytes the native layer reads through a blob: cbData bytes at pbData *)
(* what find_param points to when it is not a blob: a wide string, nothing *)
WideString(s) == [pszString |-> s]
NullPointer == [null |-> TRUE]

BlobBytes(blob) ==
  IF blob.cbData >= Len(blob.pbData) THEN blob.pbData
  ELSE SubSeq(blob.pbData, 1, blob.cbData)

(* --------------------- the certificates of the world ------------------ *)
(* A certificate: the value of its subject CN, of its issuer CN, and its  *)
(* SHA1 hash (shortened).                                                 *)
CertData ==
  <<[subject |-> <<"a">>,      issuer |-> <<"b">>, hash |-> <<"h1">>],
    [subject |-> <<"A", "b">>, issuer |-> <<"b">>, hash |-> <<"h2">>],
    [subject |-> <<"b">>,      issuer |-> <<"b">>, hash |-> <<"h3">>]>>

(* system stores that exist before the program runs: location id, name *)
InitSysStores == {<<CERT_SYSTEM_STORE_CURRENT_USER_ID, "MY">>,
                  <<CERT_SYSTEM_STORE_LOCAL_MACHINE_ID, "ROOT">>}

SysContent(loc, name) ==
  IF loc = CERT_SYSTEM_STORE_CURRENT_USER_ID /\ name = "MY" THEN <<1, 2, 3>>
  ELSE <<>>

StoreNames == {"MY", "ROOT"}

(* PKCS#12 archives as bytes: a magic byte 80, the key the password must hash    *)
(* to, then the certificates.                                             *)
Archives == {<<80, 7, 2, 1>>, <<0, 7>>}
Passwords == {"pw", "bad"}
PasswordKey(password) == IF password = "pw" THEN 7 ELSE 0

(* query inputs *)
Strings == {<<"a">>, <<"C", "N", "=", "a">>}
Hashes == {<<"h2">>, <<"h9">>}

(* ------------------------- native primitives -------------------------- *)
Ok(v) == [ok |-> TRUE, val |-> v, err |-> "none"]
Err(e) == [ok |-> FALSE, val |-> <<>>, err |-> e]
NoResult == [ok |-> FALSE, val |-> <<>>, err |-> "pending"]

(* CertOpenStore(CERT_STORE_PROV_SYSTEM_W, .., flags, name) *)
NativeOpenStore(sys, flags, name, denied) ==
  LET loc == flags \div Pow2(CERT_SYSTEM_STORE_LOCATION_SHIFT)
      existing == (flags \div CERT_STORE_OPEN_EXISTING_FLAG) % 2 = 1
  IN IF denied THEN [res |-> Err("E_ACCESSDENIED"), sys |-> sys]
     ELSE IF <<loc, name>> \in sys
       THEN [res |-> Ok(SysContent(loc, name)), sys |-> sys]
     ELSE IF existing THEN [res |-> Err("ERROR_FILE_NOT_FOUND"), sys |-> sys]
     ELSE [res |-> Ok(<<>>), sys |-> sys \cup {<<loc, name>>}]

(* PFXImportCertStore(&blob, password, flags) *)
NativePFXImport(blob, password) ==
  LET bytes == BlobBytes(blob)
  IN IF Len(bytes) < 2 \/ bytes[1] # 80 THEN Err("CRYPT_E_BAD_ENCODE")
     ELSE IF bytes[2] # PasswordKey(password) THEN Err("ERROR_INVALID_PASSWORD")
     ELSE Ok(SubSeq(bytes, 3, Len(bytes)))

(* CertStrToNameW(.., CERT_X500_NAME_STR, ..): the text must read          *)
(* "CN=<value>"; the encoding is a sequence tag, the attribute, the value. *)
IsX500(str) ==
  /\ Len(str) >= 4
  /\ str[1] = "C" /\ str[2] = "N" /\ str[3] = "="

EncodeName(value) == <<"SEQ", "CN">> \o value

EncodeX500(str) == EncodeName(SubSeq(str, 4, Len(str)))

(* phase 1: null buffer, reports the size *)
CertStrToNameW_Size(str) ==
  IF IsX500(str) THEN [ok |-> TRUE, size |-> Len(EncodeX500(str))]
  ELSE [ok |-> FALSE, size |-> 0]

(* phase 2: fills the buffer of buflen bytes, reports the bytes written *)
CertStrToNameW_Fill(str, buflen, fail) ==
  IF fail \/ ~IsX500(str) \/ buflen < Len(EncodeX500(str))
    THEN [ok |-> FALSE, size |-> 0, bytes |-> [i \in 1..buflen |-> 0]]
  ELSE [ok |-> TRUE, size |-> Len(EncodeX500(str)),
        bytes |-> EncodeX500(str) \o
                  [i \in 1..(buflen - Len(EncodeX500(str))) |-> 0]]

Lower(ch) == IF ch = "A" THEN "a" ELSE IF ch = "B" THEN "b" ELSE ch
LowerStr(s) == [i \in 1..Len(s) |-> Lower(s[i])]

IsSubstring(pat, s) ==
  \E i \in 0..(Len(s) - Len(pat)) : SubSeq(s, i + 1, i + Len(pat)) = pat

(* the match test of CertFindCertificateInStore for one certificate *)
NativeMatch(c, flags, find_param) ==
  CASE flags = "CERT_FIND_ANY" -> TRUE
    [] flags = "CERT_FIND_HASH" -> CertData[c].hash = BlobBytes(find_param)
    [] flags = "CERT_FIND_SUBJECT_STR" ->
         IsSubstring(LowerStr(find_param.pszString), LowerStr(CertData[c].subject))
    [] flags = "CERT_FIND_ISSUER_STR" ->
         IsSubstring(LowerStr(find_param.pszString), LowerStr(CertData[c].issuer))
    [] flags = "CERT_FIND_SUBJECT_NAME" ->
         EncodeName(CertData[c].subject) = BlobBytes(find_param)
    [] flags = "CERT_FIND_ISSUER_NAME" ->
         EncodeName(CertData[c].issuer) = BlobBytes(find_param)

(* the position CertFindCertificateInStore returns after prev (0: none) *)
NativeNext(cont, flags, find_param, prev) ==
  LET later == {i \in (prev + 1)..Len(cont) : NativeMatch(cont[i], flags, find_param)}
  IN IF later = {} THEN 0 ELSE CHOOSE i \in later : \A j \in later : i <= j

(* ------------------------------ state --------------------------------- *)
VARIABLES
  sysStores,    \* the system stores that exist (location id, name)
  hstate,       \* per CertStore slot: "none", "failed", "live", "dropped"
  openres,      \* per slot: what open / from_pkcs12 returned
  content,      \* per slot: the certificates of the native store, in its order
  refcnt,       \* per slot, per certificate context: the native reference count
  closes,       \* per slot: number of CertCloseStore calls on its native store
  pc,           \* per call: "idle", "find", "dup", "done"
  store,        \* per call: the CertStore (&self) the search runs on
  query,        \* per call: the public operation and its argument
  flags,        \* per call: do_find's flags
  find_param,   \* per call: do_find's find_param
  cert,         \* per call: do_find's cursor `cert` (0: null)
  certs,        \* per call: do_find's `certs`
  log,          \* per call: the native calls made so far and what they returned
  result,       \* per call: the value returned to the caller
  held,         \* per call: positions of the returned Vec not yet dropped
  prev,         \* per call: the same search, when it ran in this slot just before
  nsearch,      \* number of searches started
  conv          \* a slice of bytes and the blob length field made from its
                \* length: [fn, len, cbData], lengths as 16-bit digits, low first

storeVars == <<sysStores, hstate, openres, content, refcnt, closes>>
callVars == <<pc, store, query, flags, find_param, cert, certs, log, result,
              held, prev, nsearch>>
vars == <<sysStores, hstate, openres, content, refcnt, closes,
          pc, store, query, flags, find_param, cert, certs, log, result,
          held, prev, nsearch, conv>>

NoQuery == [op |-> "none", arg |-> <<>>]
NoPrev == [store |-> 0, query |-> NoQuery, result |-> NoResult]

(* usize on the 64-bit targets: four 16-bit digits, low first *)
UsizeDigits == {0, 1, 65535}
Usize == [1..4 -> UsizeDigits]

(* `len as u32`: the low 32 bits *)
usize_as_u32(len) == <<len[1], len[2]>>

(* the number a u32 holds, written as a usize *)
u32_as_usize(w) == <<w[1], w[2], 0, 0>>

NoConv == [fn |-> "none", len |-> <<0, 0, 0, 0>>, cbData |-> <<0, 0>>]

(* no CertStore constructed, no search started *)
Fresh ==
  /\ sysStores = InitSysStores
  /\ hstate = [h \in Handles |-> "none"]
  /\ openres = [h \in Handles |-> NoResult]
  /\ content = [h \in Handles |-> <<>>]
  /\ refcnt = [h \in Handles |-> <<>>]
  /\ closes = [h \in Handles |-> 0]
  /\ pc = [t \in Calls |-> "idle"]
  /\ store = [t \in Calls |-> 0]
  /\ query = [t \in Calls |-> NoQuery]
  /\ flags = [t \in Calls |-> "none"]
  /\ find_param = [t \in Calls |-> NullPointer]
  /\ cert = [t \in Calls |-> 0]
  /\ certs = [t \in Calls |-> <<>>]
  /\ log = [t \in Calls |-> <<>>]
  /\ result = [t \in Calls |-> NoResult]
  /\ held = [t \in Calls |-> {}]
  /\ prev = [t \in Calls |-> NoPrev]
  /\ nsearch = 0

Init == Fresh /\ conv = NoConv

(* ------------------------ store handle lifecycle ---------------------- *)
(* Ok(CertStore(handle)) or the error of the `?`.  Slot h holds the       *)
(* outcome of the latest attempt: after a failed attempt the caller may   *)
(* try again.                                                             *)
NewStore(h, r) ==
  /\ hstate[h] \in {"none", "failed"}
  /\ openres' = [openres EXCEPT ![h] = r]
  /\ hstate' = [hstate EXCEPT ![h] = IF r.ok THEN "live" ELSE "failed"]
  /\ content' = [content EXCEPT ![h] = r.val]
  /\ refcnt' = [refcnt EXCEPT ![h] = [i \in 1..Len(r.val) |-> 1]]

(* CertOpenStore with the given flags; Ok(CertStore(handle)) or the error *)
OpenWith(h, open_flags, store_name) ==
  /\ \E denied \in BOOLEAN :
       LET r == NativeOpenStore(sysStores, open_flags, store_name, denied)
       IN /\ sysStores' = r.sys
          /\ NewStore(h, r.res)
  /\ UNCHANGED <<closes, conv>>
  /\ UNCHANGED callVars

(* open with the fault: CERT_STORE_OPEN_EXISTING_FLAG left out of the flags *)
open_without_existing_flag(h, store_type, store_name) ==
  OpenWith(h, as_flags(store_type), store_name)

open(h, store_type, store_name) ==
  OpenWith(h, as_flags(store_type) + CERT_STORE_OPEN_EXISTING_FLAG, store_name)

from_pkcs12(h, data, password) ==
  /\ NewStore(h, NativePFXImport(CRYPTOAPI_BLOB(data), password))
  /\ UNCHANGED <<sysStores, closes, conv>>
  /\ UNCHANGED callVars

Searching(t) == pc[t] \in {"find", "dup"}

(* Drop with the fault: CERT_CLOSE_STORE_FORCE_FLAG is passed, which      *)
(* frees every certificate context of the store whatever its count        *)
DropForce(h) ==
  /\ hstate[h] = "live"
  /\ \A t \in Calls : Searching(t) => store[t] # h
  /\ hstate' = [hstate EXCEPT ![h] = "dropped"]
  /\ closes' = [closes EXCEPT ![h] = @ + 1]
  /\ refcnt' = [refcnt EXCEPT ![h] = [i \in 1..Len(@) |-> 0]]
  /\ UNCHANGED <<sysStores, openres, content, conv>>
  /\ UNCHANGED callVars

(* Drop with the fault: the CertStore goes away without CertCloseStore *)
DropWithoutClose(h) ==
  /\ hstate[h] = "live"
  /\ \A t \in Calls : Searching(t) => store[t] # h
  /\ hstate' = [hstate EXCEPT ![h] = "dropped"]
  /\ UNCHANGED <<sysStores, openres, content, refcnt, closes, conv>>
  /\ UNCHANGED callVars

(* Drop with the fault: the CertStore is dropped while a search borrows it *)
DropWhileBorrowed(h) ==
  /\ hstate[h] = "live"
  /\ hstate' = [hstate EXCEPT ![h] = "dropped"]
  /\ closes' = [closes EXCEPT ![h] = @ + 1]
  /\ refcnt' = [refcnt EXCEPT ![h] = [i \in 1..Len(@) |-> @[i] - 1]]
  /\ UNCHANGED <<sysStores, openres, content, conv>>
  /\ UNCHANGED callVars

(* CertCloseStore(self.0, 0): the store gives up its reference on each of *)
(* its certificate contexts.  A CertStore is dropped once, by its owner,  *)
(* when no borrow of it is left.                                          *)
Drop(h) ==
  /\ hstate[h] = "live"
  /\ \A t \in Calls : Searching(t) => store[t] # h
  /\ hstate' = [hstate EXCEPT ![h] = "dropped"]
  /\ closes' = [closes EXCEPT ![h] = @ + 1]
  /\ refcnt' = [refcnt EXCEPT ![h] = [i \in 1..Len(@) |-> @[i] - 1]]
  /\ UNCHANGED <<sysStores, openres, content, conv>>
  /\ UNCHANGED callVars

(* ------------------------------ searches ------------------------------ *)
LogEntry(fn, in, out, err) == [fn |-> fn, in |-> in, out |-> out, err |-> err]

(* a caller on thread t invokes a search on &CertStore h *)
Begin(t, h, q) ==
  /\ pc[t] \in {"idle", "done"}
  /\ \A u \in Calls : u < t => pc[u] # "idle"
  /\ held[t] = {}
  /\ hstate[h] = "live"
  /\ nsearch < MaxSearches
  /\ nsearch' = nsearch + 1
  /\ store' = [store EXCEPT ![t] = h]
  /\ query' = [query EXCEPT ![t] = q]
  /\ prev' = [prev EXCEPT ![t] =
                IF pc[t] = "done" /\ store[t] = h /\ query[t] = q
                  THEN [store |-> store[t], query |-> query[t], result |-> result[t]]
                ELSE NoPrev]
  /\ UNCHANGED <<storeVars, conv>>

(* the search returns r to its caller, who now owns the Vec *)
Return(t, r) ==
  /\ pc' = [pc EXCEPT ![t] = "done"]
  /\ result' = [result EXCEPT ![t] = r]
  /\ held' = [held EXCEPT ![t] = 1..Len(r.val)]

(* do_find up to its first native call: certs = Vec::new(), cert = null *)
do_find(t, fl, param, lg) ==
  /\ pc' = [pc EXCEPT ![t] = "find"]
  /\ flags' = [flags EXCEPT ![t] = fl]
  /\ find_param' = [find_param EXCEPT ![t] = param]
  /\ cert' = [cert EXCEPT ![t] = 0]
  /\ certs' = [certs EXCEPT ![t] = <<>>]
  /\ log' = [log EXCEPT ![t] = lg]
  /\ result' = [result EXCEPT ![t] = NoResult]
  /\ UNCHANGED held

find_by_str(t, pattern, fl) == do_find(t, fl, WideString(pattern), <<>>)

(* the two CertStrToNameW calls, then do_find on the name blob; the buffer *)
(* is vec![0u8; name_size] (extra = 0)                                    *)
EncodeThenFind(t, field, fl, fail2, check1, check2, extra) ==
  LET p1 == CertStrToNameW_Size(field)
      l1 == LogEntry("CertStrToNameW", 0 - 1, p1.size,
                     IF p1.ok THEN "none" ELSE "CRYPT_E_INVALID_X500_STRING")
      name_size == p1.size
      p2 == CertStrToNameW_Fill(field, name_size + extra, fail2)
      l2 == LogEntry("CertStrToNameW", name_size + extra, p2.size,
                     IF p2.ok THEN "none" ELSE "E_FAIL")
      x509name == p2.bytes
  IN IF check1 /\ ~p1.ok
       THEN /\ Return(t, Err(l1.err))
            /\ log' = [log EXCEPT ![t] = <<l1>>]
            /\ certs' = [certs EXCEPT ![t] = <<>>]
            /\ cert' = [cert EXCEPT ![t] = 0]
            /\ flags' = [flags EXCEPT ![t] = "none"]
            /\ find_param' = [find_param EXCEPT ![t] = NullPointer]
     ELSE IF check2 /\ ~p2.ok
       THEN /\ Return(t, Err(l2.err))
            /\ log' = [log EXCEPT ![t] = <<l1, l2>>]
            /\ certs' = [certs EXCEPT ![t] = <<>>]
            /\ cert' = [cert EXCEPT ![t] = 0]
            /\ flags' = [flags EXCEPT ![t] = "none"]
            /\ find_param' = [find_param EXCEPT ![t] = NullPointer]
     ELSE do_find(t, fl, CRYPTOAPI_BLOB(x509name), <<l1, l2>>)

(* find_by_name with the fault: the result of the size query is not tested *)
find_by_name_unchecked(t, field, fl, fail2) ==
  EncodeThenFind(t, field, fl, fail2, FALSE, TRUE, 0)

(* find_by_name with the fault: the match kind it is given is not passed on *)
find_by_name_any_kind(t, field, fl, fail2) ==
  EncodeThenFind(t, field, "CERT_FIND_ANY", fail2, TRUE, TRUE, 0)

(* find_by_name with the fault: the buffer is one byte longer than the size *)
(* the size query reported                                                 *)
find_by_name_longer_buffer(t, field, fl, fail2) ==
  EncodeThenFind(t, field, fl, fail2, TRUE, TRUE, 1)

(* find_by_name with the fault: the result of the fill call is not tested *)
find_by_name_fill_unchecked(t, field, fl, fail2) ==
  EncodeThenFind(t, field, fl, fail2, TRUE, FALSE, 0)

find_by_name(t, field, fl, fail2) ==
  EncodeThenFind(t, field, fl, fail2, TRUE, TRUE, 0)

find_by_subject_str(t, h, subject) ==
  /\ Begin(t, h, [op |-> "find_by_subject_str", arg |-> subject])
  /\ find_by_str(t, subject, "CERT_FIND_SUBJECT_STR")

find_by_subject_name(t, h, subject) ==
  /\ Begin(t, h, [op |-> "find_by_subject_name", arg |-> subject])
  /\ \E fail2 \in BOOLEAN : find_by_name(t, subject, "CERT_FIND_SUBJECT_NAME", fail2)

find_by_issuer_str(t, h, subject) ==
  /\ Begin(t, h, [op |-> "find_by_issuer_str", arg |-> subject])
  /\ find_by_str(t, subject, "CERT_FIND_ISSUER_STR")

(* find_by_issuer_name with the fault: it asks for a match on the subject *)
find_by_issuer_name_on_subject(t, h, subject) ==
  /\ Begin(t, h, [op |-> "find_by_issuer_name", arg |-> subject])
  /\ \E fail2 \in BOOLEAN : find_by_name(t, subject, "CERT_FIND_SUBJECT_NAME", fail2)

find_by_issuer_name(t, h, subject) ==
  /\ Begin(t, h, [op |-> "find_by_issuer_name", arg |-> subject])
  /\ \E fail2 \in BOOLEAN : find_by_name(t, subject, "CERT_FIND_ISSUER_NAME", fail2)

find_by_sha1(t, h, hash) ==
  /\ Begin(t, h, [op |-> "find_by_sha1", arg |-> hash])
  /\ do_find(t, "CERT_FIND_HASH", CRYPTOAPI_BLOB(hash), <<>>)

find_all(t, h) ==
  /\ Begin(t, h, [op |-> "find_all", arg |-> <<>>])
  /\ do_find(t, "CERT_FIND_ANY", NullPointer, <<>>)

AddRef(rc, h, i, d) == [rc EXCEPT ![h] = [@ EXCEPT ![i] = @ + d]]

(* One turn of the loop up to the null test: CertFindCertificateInStore    *)
(* frees the previous context it is given (also when it fails), and hands  *)
(* out a reference on the context it returns; null ends the loop and       *)
(* do_find returns Ok(certs).  fail: the native call fails for a reason    *)
(* other than the end of the enumeration.                                  *)
FindTurn(t, fail, prev_cert, at_null) ==
  /\ pc[t] = "find"
  /\ LET h == store[t]
         nxt == IF fail THEN 0
                ELSE NativeNext(content[h], flags[t], find_param[t], prev_cert)
         rc1 == IF prev_cert # 0 THEN AddRef(refcnt, h, prev_cert, 0 - 1) ELSE refcnt
         rc2 == IF nxt # 0 THEN AddRef(rc1, h, nxt, 1) ELSE rc1
         entry == LogEntry("CertFindCertificateInStore", prev_cert, nxt,
                           IF nxt # 0 THEN "none"
                           ELSE IF fail THEN "E_FAIL" ELSE "CRYPT_E_NOT_FOUND")
     IN /\ refcnt' = rc2
        /\ cert' = [cert EXCEPT ![t] = nxt]
        /\ log' = [log EXCEPT ![t] = Append(@, entry)]
        /\ IF nxt = 0
             THEN Return(t, at_null)
           ELSE /\ pc' = [pc EXCEPT ![t] = "dup"]
                /\ UNCHANGED <<result, held>>
  /\ UNCHANGED <<conv, sysStores, hstate, openres, content, closes>>
  /\ UNCHANGED <<store, query, flags, find_param, certs, prev, nsearch>>

(* FindStep with the fault: the cursor is kept with the store, not in the call *)
FindStepSharedCursor(t, fail) ==
  LET users == {u \in Calls : Searching(u) /\ store[u] = store[t]}
      others == {cert[u] : u \in users}
      shared == CHOOSE c \in others : \A d \in others : d <= c
  IN FindTurn(t, fail, shared, Ok(certs[t]))

(* FindStep with the fault: null with nothing found is reported as an error *)
FindStepNotFoundError(t, fail) ==
  FindTurn(t, fail, cert[t],
           IF certs[t] = <<>> THEN Err("CRYPT_E_NOT_FOUND") ELSE Ok(certs[t]))

(* FindStep with the fault: do_find closes the store when the loop ends *)
FindStepClosingStore(t, fail) ==
  /\ pc[t] = "find"
  /\ LET h == store[t]
         nxt == IF fail THEN 0
                ELSE NativeNext(content[h], flags[t], find_param[t], cert[t])
         rc1 == IF cert[t] # 0 THEN AddRef(refcnt, h, cert[t], 0 - 1) ELSE refcnt
         rc2 == IF nxt # 0 THEN AddRef(rc1, h, nxt, 1) ELSE rc1
         entry == LogEntry("CertFindCertificateInStore", cert[t], nxt,
                           IF nxt # 0 THEN "none"
                           ELSE IF fail THEN "E_FAIL" ELSE "CRYPT_E_NOT_FOUND")
     IN /\ refcnt' = rc2
        /\ cert' = [cert EXCEPT ![t] = nxt]
        /\ log' = [log EXCEPT ![t] = Append(@, entry)]
        /\ IF nxt = 0
             THEN /\ Return(t, Ok(certs[t]))
                  /\ closes' = [closes EXCEPT ![h] = @ + 1]
           ELSE /\ pc' = [pc EXCEPT ![t] = "dup"]
                /\ UNCHANGED <<result, held, closes>>
  /\ UNCHANGED <<conv, sysStores, hstate, openres, content>>
  /\ UNCHANGED <<store, query, flags, find_param, certs, prev, nsearch>>

(* FindStep with the fault: the native find is never given the cursor *)
FindStepFromStart(t, fail) == FindTurn(t, fail, 0, Ok(certs[t]))

FindStep(t, fail) == FindTurn(t, fail, cert[t], Ok(certs[t]))

(* DupStep with the fault: the context is pushed without being duplicated *)
DupStepWithoutDuplicate(t) ==
  /\ pc[t] = "dup"
  /\ certs' = [certs EXCEPT ![t] = Append(@, cert[t])]
  /\ log' = [log EXCEPT ![t] =
               Append(@, LogEntry("CertDuplicateCertificateContext",
                                  cert[t], cert[t], "none"))]
  /\ pc' = [pc EXCEPT ![t] = "find"]
  /\ UNCHANGED <<conv, sysStores, hstate, openres, content, closes, refcnt>>
  /\ UNCHANGED <<store, query, flags, find_param, cert, result, held, prev, nsearch>>

(* DupStep with the fault: the loop is left after the first push, with the *)
(* cursor still holding the context the last find returned                *)
DupStepLeavingLoop(t) ==
  /\ pc[t] = "dup"
  /\ refcnt' = AddRef(refcnt, store[t], cert[t], 1)
  /\ certs' = [certs EXCEPT ![t] = Append(@, cert[t])]
  /\ log' = [log EXCEPT ![t] =
               Append(@, LogEntry("CertDuplicateCertificateContext",
                                  cert[t], cert[t], "none"))]
  /\ Return(t, Ok(Append(certs[t], cert[t])))
  /\ UNCHANGED <<conv, sysStores, hstate, openres, content, closes>>
  /\ UNCHANGED <<store, query, flags, find_param, cert, prev, nsearch>>

(* CertDuplicateCertificateContext(cert); certs.push(CertContext::owned(..)) *)
DupStep(t) ==
  /\ pc[t] = "dup"
  /\ refcnt' = AddRef(refcnt, store[t], cert[t], 1)
  /\ certs' = [certs EXCEPT ![t] = Append(@, cert[t])]
  /\ log' = [log EXCEPT ![t] =
               Append(@, LogEntry("CertDuplicateCertificateContext",
                                  cert[t], cert[t], "none"))]
  /\ pc' = [pc EXCEPT ![t] = "find"]
  /\ UNCHANGED <<conv, sysStores, hstate, openres, content, closes>>
  /\ UNCHANGED <<store, query, flags, find_param, cert, result, held, prev, nsearch>>

(* the caller drops one CertContext of the returned Vec:                  *)
(* CertFreeCertificateContext                                             *)
DropCert(t, i) ==
  /\ pc[t] = "done"
  /\ i \in held[t]
  /\ held' = [held EXCEPT ![t] = @ \ {i}]
  /\ refcnt' = AddRef(refcnt, store[t], result[t].val[i], 0 - 1)
  /\ UNCHANGED <<conv, sysStores, hstate, openres, content, closes>>
  /\ UNCHANGED <<pc, store, query, flags, find_param, cert, certs, log, result,
                 prev, nsearch>>

Next ==
  \/ \E h \in Handles, st \in CertStoreType, n \in StoreNames : open(h, st, n)
  \/ \E h \in Handles, d \in Archives, pw \in Passwords : from_pkcs12(h, d, pw)
  \/ \E h \in Handles : Drop(h)
  \/ \E t \in Calls, h \in Handles, s \in Strings : find_by_subject_str(t, h, s)
  \/ \E t \in Calls, h \in Handles, s \in Strings : find_by_subject_name(t, h, s)
  \/ \E t \in Calls, h \in Handles, s \in Strings : find_by_issuer_str(t, h, s)
  \/ \E t \in Calls, h \in Handles, s \in Strings : find_by_issuer_name(t, h, s)
  \/ \E t \in Calls, h \in Handles, x \in Hashes : find_by_sha1(t, h, x)
  \/ \E t \in Calls, h \in Handles : find_all(t, h)
  \/ \E t \in Calls, fail \in BOOLEAN : FindStep(t, fail)
  \/ \E t \in Calls : DupStep(t)
  \/ \E t \in Calls, i \in 1..Len(CertData) : DropCert(t, i)

Spec == Init /\ [][Next]_vars

(* The thread inside do_find keeps running: the loop has no blocking call  *)
(* other than the native ones, which return.  Each of its steps adds to   *)
(* log, so a step that changes <<pc, log>> is any step of it.             *)
FairSpec ==
  /\ Spec
  /\ \A t \in Calls : WF_<<pc, log>>(\E fail \in BOOLEAN : FindStep(t, fail))
  /\ \A t \in Calls : WF_<<pc, log>>(DupStep(t))

(* ------------------- the length field of a blob ----------------------- *)
(* CRYPTOAPI_BLOB { cbData: len() as u32, .. } for a slice of any length  *)
(* a 64-bit target allows; the slice itself is not needed, only its       *)
(* length.                                                                *)
LenInit ==
  /\ Fresh
  /\ conv \in {[fn |-> "none", len |-> l, cbData |-> <<0, 0>>] : l \in Usize}

BlobLen(fn) ==
  /\ conv.fn = "none"
  /\ conv' = [conv EXCEPT !.fn = fn, !.cbData = usize_as_u32(conv.len)]
  /\ UNCHANGED <<storeVars, callVars>>

(* cbData: data.len() as u32 *)
from_pkcs12_blob == BlobLen("from_pkcs12")

(* cbData: hash.as_ref().len() as u32 *)
find_by_sha1_blob == BlobLen("find_by_sha1")

LenNext == from_pkcs12_blob \/ find_by_sha1_blob

LenSpec == LenInit /\ [][LenNext]_vars

TypeOK ==
  /\ \A h \in Handles : hstate[h] \in {"none", "failed", "live", "dropped"}
  /\ \A t \in Calls : pc[t] \in {"idle", "find", "dup", "done"}

(* ------------------------- auxiliary definitions ---------------------- *)
Range(f) == {f[i] : i \in DOMAIN f}

NameOps == {"find_by_subject_name", "find_by_issuer_name"}

(* what it means for certificate c to match the query q of the caller *)
QueryMatch(c, q) ==
  CASE q.op = "find_all" -> TRUE
    [] q.op = "find_by_sha1" -> CertData[c].hash = q.arg
    [] q.op = "find_by_subject_str" ->
         IsSubstring(LowerStr(q.arg), LowerStr(CertData[c].subject))
    [] q.op = "find_by_issuer_str" ->
         IsSubstring(LowerStr(q.arg), LowerStr(CertData[c].issuer))
    [] q.op = "find_by_subject_name" ->
         IsX500(q.arg) /\ CertData[c].subject = SubSeq(q.arg, 4, Len(q.arg))
    [] q.op = "find_by_issuer_name" ->
         IsX500(q.arg) /\ CertData[c].issuer = SubSeq(q.arg, 4, Len(q.arg))
    [] OTHER -> FALSE

RECURSIVE MatchingFrom(_, _, _)
(* the positions of cont from i on whose certificate matches q, in order *)
MatchingFrom(cont, q, i) ==
  IF i > Len(cont) THEN <<>>
  ELSE IF QueryMatch(cont[i], q) THEN <<i>> \o MatchingFrom(cont, q, i + 1)
  ELSE MatchingFrom(cont, q, i + 1)

Matching(cont, q) == MatchingFrom(cont, q, 1)

IsFind(e) == e.fn = "CertFindCertificateInStore"
IsEncode(e) == e.fn = "CertStrToNameW"

Done(t) == pc[t] = "done"

(* the references on context c of store h held by enumeration cursors *)
CursorRefs(h, c) ==
  Cardinality({t \in Calls : Searching(t) /\ store[t] = h /\ cert[t] = c})

(* the CertContext handles that refer to context c of store h *)
HandleRefs(h, c) ==
  Cardinality({x \in Calls \X (1..Len(content[h])) :
                 /\ store[x[1]] = h
                 /\ \/ /\ Searching(x[1])
                       /\ x[2] \in DOMAIN certs[x[1]]
                       /\ certs[x[1]][x[2]] = c
                    \/ /\ Done(x[1])
                       /\ x[2] \in held[x[1]]
                       /\ result[x[1]].val[x[2]] = c})

StoreRefs(h) == IF hstate[h] = "live" THEN 1 ELSE 0

(* --------------------------------- C1 ---------------------------------- *)
(* C1: do_find issues the next native find only once the match it holds   *)
(* has been duplicated and that duplicate appended to certs, and every    *)
(* handle (in a growing or a returned sequence) is backed by a reference  *)
(* of its own, owned neither by a cursor nor by the store.                *)
C1_DuplicateBeforeNext ==
  /\ \A t \in Calls :
       pc[t] = "find" /\ cert[t] # 0 =>
         /\ certs[t] # <<>>
         /\ certs[t][Len(certs[t])] = cert[t]
  /\ \A h \in Handles : \A c \in 1..Len(content[h]) :
       refcnt[h][c] - CursorRefs(h, c) - StoreRefs(h) >= HandleRefs(h, c)

(* the cursor has moved on past a handle that is already in certs *)
C1_Witness ==
  \E t \in Calls :
    /\ pc[t] = "find"
    /\ Len(certs[t]) >= 2
    /\ cert[t] # certs[t][1]
    /\ refcnt[store[t]][certs[t][1]] >= 2

(* --------------------------------- C2 ---------------------------------- *)
(* C2: every certificate handle of a returned sequence that the caller    *)
(* still holds refers to a live certificate (reference count at least     *)
(* one), whether or not the store it came from has been dropped and       *)
(* whichever other handles have been dropped.                             *)
C2_HandlesOutliveStore ==
  \A t \in Calls :
    Done(t) /\ result[t].ok =>
      \A i \in held[t] : refcnt[store[t]][result[t].val[i]] >= 1

(* the store is closed, one returned handle is dropped, another is held *)
C2_Witness ==
  \E t \in Calls :
    /\ Done(t) /\ result[t].ok
    /\ hstate[store[t]] = "dropped"
    /\ held[t] # {}
    /\ held[t] # 1..Len(result[t].val)

(* --------------------------------- C3 ---------------------------------- *)
FindFailed(t) == \E i \in DOMAIN log[t] : IsFind(log[t][i]) /\ log[t][i].err = "E_FAIL"

(* C3: a search during which the native find call failed with a platform  *)
(* error returns an error, not a sequence.                                *)
C3_FindErrorReturned ==
  \A t \in Calls : Done(t) /\ FindFailed(t) => ~result[t].ok

(* --------------------------------- C4 ---------------------------------- *)
(* C4: a search that returns a sequence returns exactly the certificates  *)
(* of the store that match the query, once each, in the store's order.    *)
C4_ExactlyTheMatches ==
  \A t \in Calls :
    Done(t) /\ result[t].ok =>
      result[t].val = Matching(content[store[t]], query[t])

(* --------------------------------- C5 ---------------------------------- *)
(* C5 as stated: whenever no certificate of the store matches the query,  *)
(* the search returns a successful empty sequence.                        *)
C5_NoMatchIsEmptyOk ==
  \A t \in Calls :
    Done(t) /\ Matching(content[store[t]], query[t]) = <<>> =>
      result[t] = Ok(<<>>)

EncodeFailed(t) ==
  \E i \in DOMAIN log[t] : IsEncode(log[t][i]) /\ log[t][i].err # "none"

(* C5 amended: whenever no certificate of the store matches the query and *)
(* no name encoder call of the search failed, the search returns a        *)
(* successful empty sequence; a search that got as far as the native find *)
(* never returns an error, and the only errors are the encoder's.         *)
C5_NoMatchIsEmptyOkUnlessEncoder ==
  \A t \in Calls :
    Done(t) =>
      /\ Matching(content[store[t]], query[t]) = <<>> /\ ~EncodeFailed(t)
           => result[t] = Ok(<<>>)
      /\ ~result[t].ok => EncodeFailed(t) /\ query[t].op \in NameOps

(* a hash that no certificate of a non-empty store has *)
C5_Witness ==
  \E t \in Calls :
    /\ Done(t)
    /\ query[t].op = "find_by_sha1"
    /\ content[store[t]] # <<>>
    /\ Matching(content[store[t]], query[t]) = <<>>
    /\ result[t] = Ok(<<>>)

(* --------------------------------- C6 ---------------------------------- *)
Phase1Failed(t) ==
  /\ log[t] # <<>>
  /\ IsEncode(log[t][1]) /\ log[t][1].in = 0 - 1 /\ log[t][1].err # "none"

(* C6: an exact-name search whose size query fails returns a platform     *)
(* error at once: the size query is its only native call (no fill call,   *)
(* no find, no duplicate) and it hands out no certificate handle.         *)
C6_Phase1FailureReturns ==
  \A t \in Calls :
    /\ Phase1Failed(t) =>
         /\ Done(t)
         /\ ~result[t].ok /\ result[t].err = log[t][1].err
         /\ Len(log[t]) = 1
         /\ certs[t] = <<>> /\ held[t] = {}
    /\ Done(t) /\ query[t].op \in NameOps /\ ~IsX500(query[t].arg) => Phase1Failed(t)

C6_Witness ==
  \E t \in Calls :
    /\ Done(t) /\ Phase1Failed(t)
    /\ query[t].op = "find_by_issuer_name"
    /\ content[store[t]] # <<>>

(* --------------------------------- C7 ---------------------------------- *)
(* C7: the native store of a constructed CertStore is closed exactly once *)
(* when the CertStore is dropped, and not at all before, whatever         *)
(* searches ran on it.                                                    *)
C7_ClosedExactlyOnce ==
  \A h \in Handles :
    /\ hstate[h] = "live" => closes[h] = 0
    /\ hstate[h] = "dropped" => closes[h] = 1
    /\ closes[h] <= 1

(* dropped after one search on it failed and another succeeded *)
C7_Witness ==
  \E h \in Handles :
    /\ hstate[h] = "dropped" /\ closes[h] = 1
    /\ \E t, u \in Calls :
         /\ Done(t) /\ store[t] = h /\ ~result[t].ok
         /\ Done(u) /\ store[u] = h /\ result[u].ok /\ result[u].val # <<>>

(* --------------------------------- C8 ---------------------------------- *)
(* C8: when the native open or import fails, open / from_pkcs12 returns   *)
(* the platform error, no CertStore exists for the attempt, nothing is    *)
(* ever closed or searched for it, and no system store is created.        *)
C8_FailedOpenLeavesNothing ==
  /\ sysStores = InitSysStores
  /\ \A h \in Handles :
       /\ openres[h].ok <=> hstate[h] \in {"live", "dropped"}
       /\ hstate[h] = "failed" =>
            /\ openres[h].err \in {"E_ACCESSDENIED", "ERROR_FILE_NOT_FOUND",
                                   "CRYPT_E_BAD_ENCODE", "ERROR_INVALID_PASSWORD"}
            /\ closes[h] = 0
            /\ content[h] = <<>>
            /\ \A t \in Calls : store[t] # h

(* an open of a store that does not exist has failed *)
C8_Witness ==
  \E h \in Handles :
    hstate[h] = "failed" /\ openres[h].err = "ERROR_FILE_NOT_FOUND"

(* --------------------------------- C9 ---------------------------------- *)
(* which native find calls of the search failed, in call order *)
RECURSIVE FindOutcomes(_)
FindOutcomes(lg) ==
  IF lg = <<>> THEN <<>>
  ELSE IF IsFind(Head(lg)) THEN <<Head(lg).err = "E_FAIL">> \o FindOutcomes(Tail(lg))
  ELSE FindOutcomes(Tail(lg))

RECURSIVE SoloRun(_, _, _, _, _, _)
(* do_find run alone on cont, its native find calls failing as in fails *)
SoloRun(cont, fl, param, fails, cur, acc) ==
  IF fails = <<>> THEN [cert |-> cur, certs |-> acc, returned |-> FALSE]
  ELSE LET nxt == IF Head(fails) THEN 0 ELSE NativeNext(cont, fl, param, cur)
       IN IF nxt = 0 THEN [cert |-> 0, certs |-> acc, returned |-> TRUE]
          ELSE SoloRun(cont, fl, param, Tail(fails), nxt, Append(acc, nxt))

Solo(t) ==
  SoloRun(content[store[t]], flags[t], find_param[t], FindOutcomes(log[t]), 0, <<>>)

(* C9: whatever the interleaving with the other thread's search, a search *)
(* is at every step where it would be had it run alone (same cursor, same *)
(* accumulated sequence) and returns what it would return alone.          *)
C9_ConcurrentIsSolo ==
  \A t \in Calls :
    /\ pc[t] = "find" => cert[t] = Solo(t).cert /\ certs[t] = Solo(t).certs
    /\ pc[t] = "dup" =>
         cert[t] = Solo(t).cert /\ Append(certs[t], cert[t]) = Solo(t).certs
    /\ Done(t) /\ result[t].ok =>
         Solo(t).returned /\ result[t].val = Solo(t).certs

(* both threads are in the middle of an enumeration of the same store *)
C9_Witness ==
  /\ Searching(1) /\ Searching(2)
  /\ store[1] = store[2]
  /\ certs[1] # <<>> /\ certs[2] # <<>>
  /\ cert[1] # 0 /\ cert[2] # 0 /\ cert[1] # cert[2]

(* -------------------------------- C10 ---------------------------------- *)
(* C10: a search repeated with the same argument right after itself, on   *)
(* the same store, returns the same set of certificates.                  *)
C10_RepeatedSearchSameSet ==
  \A t \in Calls :
    /\ Done(t) /\ result[t].ok
    /\ prev[t].store = store[t] /\ prev[t].query = query[t] /\ prev[t].result.ok
    => Range(result[t].val) = Range(prev[t].result.val)

(* -------------------------------- C11 ---------------------------------- *)
(* a step of a search: its start, one of its native calls, or its return *)
SearchStep == <<pc, log, cert, certs, nsearch>>' # <<pc, log, cert, certs, nsearch>>

(* C11: no step of any search, succeeding or failing, changes the         *)
(* certificates of the store, the CertStore, its native reference or the  *)
(* system stores; a store that is being searched is open, and an open     *)
(* store holds the certificates it held when it was constructed.          *)
C11_SearchesLeaveStoreAlone ==
  /\ [](\A h \in Handles :
          /\ hstate[h] \in {"live", "dropped"} => content[h] = openres[h].val
          /\ hstate[h] = "live" => closes[h] = 0
          /\ \A t \in Calls : Searching(t) /\ store[t] = h => hstate[h] = "live")
  /\ [][SearchStep =>
          UNCHANGED <<sysStores, hstate, openres, content, closes>>]_vars

(* a failed and a successful search have run, and the store is still open *)
C11_Witness ==
  \E t, u \in Calls :
    /\ Done(t) /\ ~result[t].ok
    /\ Done(u) /\ result[u].ok /\ result[u].val # <<>>
    /\ store[t] = store[u]
    /\ hstate[store[t]] = "live" /\ closes[store[t]] = 0
    /\ content[store[t]] = openres[store[t]].val

(* -------------------------------- C12 ---------------------------------- *)
(* an exact subject search t and a subject substring search u of one store *)
ExactAndSubstring(t, u) ==
  /\ Done(t) /\ result[t].ok /\ query[t].op = "find_by_subject_name"
  /\ Done(u) /\ result[u].ok /\ query[u].op = "find_by_subject_str"
  /\ store[t] = store[u]

SimpleNameOf(str) == SubSeq(str, 4, Len(str))

IsPrefix(s, w) == Len(s) <= Len(w) /\ s = SubSeq(w, 1, Len(s))

FindCalls(t) == SelectSeq(log[t], IsFind)

(* C13: every reference a native find hands out is given back to the very *)
(* next native find of the same search as its cursor (which frees it);    *)
(* a search that has returned holds no cursor reference; at every moment  *)
(* the count of each certificate is the store's own reference plus one    *)
(* per cursor on it plus one per handle on it, neither more (a leak) nor  *)
(* less (a double release), so once no search runs and every returned     *)
(* handle is dropped the count is the store's reference alone, as before  *)
(* the search.                                                            *)
C13_ReferenceBalance ==
  /\ \A t \in Calls :
       LET f == FindCalls(t)
       IN \A i \in 1..Len(f) :
            f[i].out # 0 =>
              IF i < Len(f) THEN f[i + 1].in = f[i].out
              ELSE Searching(t) /\ cert[t] = f[i].out
  /\ \A t \in Calls : Done(t) => cert[t] = 0
  /\ \A h \in Handles : \A c \in 1..Len(content[h]) :
       /\ refcnt[h][c] = StoreRefs(h) + CursorRefs(h, c) + HandleRefs(h, c)
       /\ (\A t \in Calls : ~Searching(t) /\ held[t] = {})
            => refcnt[h][c] = StoreRefs(h)

(* a search returned two handles or more and the caller dropped them all *)
C13_Witness ==
  \E t \in Calls :
    /\ Done(t) /\ result[t].ok /\ Len(result[t].val) >= 2
    /\ Len(FindCalls(t)) = Len(result[t].val) + 1
    /\ \A u \in Calls : ~Searching(u) /\ held[u] = {}
    /\ hstate[store[t]] = "live"
    /\ \A c \in 1..Len(content[store[t]]) : refcnt[store[t]][c] = 1

(* -------------------------------- C14 ---------------------------------- *)
(* the exact-name search of call t got as far as do_find *)
NameSearchFinding(t) ==
  /\ pc[t] # "idle"
  /\ query[t].op \in NameOps
  /\ flags[t] # "none"

(* C14: in an exact-name search that reaches do_find, the fill call was   *)
(* given a buffer of the size the size query reported, and the match      *)
(* parameter is the blob of exactly the bytes the fill call wrote: its    *)
(* length is the number of bytes the fill call reported as written and    *)
(* its bytes are the encoding of the name.                                *)
C14_MatchParameterIsEncodedName ==
  \A t \in Calls :
    NameSearchFinding(t) =>
      /\ Len(log[t]) >= 2
      /\ IsEncode(log[t][1]) /\ log[t][1].in = 0 - 1 /\ log[t][1].err = "none"
      /\ IsEncode(log[t][2]) /\ log[t][2].err = "none"
      /\ log[t][2].in = log[t][1].out
      /\ find_param[t].cbData = log[t][2].out
      /\ Len(find_param[t].pbData) = log[t][2].out
      /\ find_param[t].pbData = EncodeX500(query[t].arg)

(* an exact-name search has found a certificate with the encoded name *)
C14_Witness ==
  \E t \in Calls :
    /\ NameSearchFinding(t) /\ Done(t)
    /\ result[t].ok /\ result[t].val # <<>>
    /\ find_param[t].cbData = log[t][2].out
    /\ find_param[t].cbData > 2

(* -------------------------------- C15 ---------------------------------- *)
(* the fill call of the exact-name search of call t failed *)
Phase2Failed(t) ==
  /\ Len(log[t]) >= 2
  /\ IsEncode(log[t][2]) /\ log[t][2].in >= 0 /\ log[t][2].err # "none"

(* C15: an exact-name search whose size query succeeds and whose fill     *)
(* call fails returns the platform error of the fill call; the two        *)
(* encoder calls are its only native calls (no find, no duplicate), the   *)
(* buffer does not become a match parameter, and the search holds no      *)
(* cursor and hands out no certificate handle.                            *)
C15_Phase2FailureReturns ==
  \A t \in Calls :
    Phase2Failed(t) =>
      /\ Done(t)
      /\ ~result[t].ok /\ result[t].err = log[t][2].err
      /\ log[t][1].err = "none"
      /\ Len(log[t]) = 2
      /\ flags[t] = "none" /\ find_param[t] = NullPointer
      /\ cert[t] = 0 /\ certs[t] = <<>> /\ held[t] = {}

(* the fill call failed for a name that a certificate of the store has *)
C15_Witness ==
  \E t \in Calls :
    /\ Done(t) /\ Phase2Failed(t)
    /\ query[t].op = "find_by_subject_name"
    /\ Matching(content[store[t]], query[t]) # <<>>
    /\ \A c \in 1..Len(content[store[t]]) : refcnt[store[t]][c] = StoreRefs(store[t])

(* -------------------------------- C16 ---------------------------------- *)
(* the native find calls f of a search are chained: the first is given   *)
(* the null cursor, each later one what the call before it returned      *)
Chained(f) ==
  \A i \in 1..Len(f) : f[i].in = (IF i = 1 THEN 0 ELSE f[i - 1].out)

(* C16: every search that has started returns; its native find calls are  *)
(* chained from the null cursor and are never more than the number of     *)
(* matching certificates plus one; when none of them failed, a search     *)
(* that has returned issued exactly that many, all but the last           *)
(* returning a match and the last returning none.                         *)
C16_EnumerationTerminates ==
  /\ [](\A t \in Calls :
          LET f == FindCalls(t)
              n == Len(Matching(content[store[t]], query[t]))
          IN pc[t] # "idle" =>
               /\ Chained(f)
               /\ Len(f) <= n + 1
               /\ Done(t) /\ f # <<>> /\ ~FindFailed(t) =>
                    /\ Len(f) = n + 1
                    /\ \A i \in 1..n : f[i].out # 0
                    /\ f[n + 1].out = 0)
  /\ \A t \in Calls : Searching(t) ~> Done(t)

(* a search over two matches or more has returned after one call more *)
C16_Witness ==
  \E t \in Calls :
    /\ Done(t) /\ ~FindFailed(t)
    /\ Len(Matching(content[store[t]], query[t])) >= 2
    /\ Len(FindCalls(t)) = Len(Matching(content[store[t]], query[t])) + 1
    /\ FindCalls(t)[2].in = FindCalls(t)[1].out

(* -------------------------------- C17 ---------------------------------- *)
(* the match kind and the match parameter each public search is to pass *)
FlagsOf(q) ==
  CASE q.op = "find_by_subject_str" -> "CERT_FIND_SUBJECT_STR"
    [] q.op = "find_by_subject_name" -> "CERT_FIND_SUBJECT_NAME"
    [] q.op = "find_by_issuer_str" -> "CERT_FIND_ISSUER_STR"
    [] q.op = "find_by_issuer_name" -> "CERT_FIND_ISSUER_NAME"
    [] q.op = "find_by_sha1" -> "CERT_FIND_HASH"
    [] q.op = "find_all" -> "CERT_FIND_ANY"

ParamOf(q) ==
  CASE q.op \in {"find_by_subject_str", "find_by_issuer_str"} -> WideString(q.arg)
    [] q.op \in NameOps -> CRYPTOAPI_BLOB(EncodeX500(q.arg))
    [] q.op = "find_by_sha1" -> CRYPTOAPI_BLOB(q.arg)
    [] q.op = "find_all" -> NullPointer

(* C17: a search other than the two exact-name ones makes no encoder call *)
(* and goes straight to do_find; an exact-name search makes the size      *)
(* query first, the fill call second (when the size query succeeded),     *)
(* no other encoder call, and native finds only after both succeeded;     *)
(* every search that reaches do_find passes the match kind of its own     *)
(* operation with the encoded name, the raw text, the raw hash bytes or   *)
(* no parameter.                                                          *)
C17_EncoderOnlyForExactNames ==
  \A t \in Calls :
    pc[t] # "idle" =>
      /\ query[t].op \notin NameOps =>
           /\ \A i \in DOMAIN log[t] : ~IsEncode(log[t][i])
           /\ flags[t] # "none"
      /\ query[t].op \in NameOps =>
           /\ log[t] # <<>>
           /\ IsEncode(log[t][1]) /\ log[t][1].in = 0 - 1
           /\ Len(log[t]) >= 2 =>
                /\ log[t][1].err = "none"
                /\ IsEncode(log[t][2]) /\ log[t][2].in >= 0
           /\ Len(log[t]) = 1 => log[t][1].err # "none"
           /\ \A i \in DOMAIN log[t] :
                /\ i > 2 => ~IsEncode(log[t][i])
                /\ IsFind(log[t][i]) => i > 2 /\ log[t][2].err = "none"
      /\ flags[t] # "none" =>
           /\ flags[t] = FlagsOf(query[t])
           /\ find_param[t] = ParamOf(query[t])

(* an exact issuer search and a substring search have both found something *)
C17_Witness ==
  \E t, u \in Calls :
    /\ Done(t) /\ query[t].op = "find_by_issuer_name"
    /\ Len(log[t]) >= 3 /\ IsFind(log[t][3])
    /\ flags[t] = "CERT_FIND_ISSUER_NAME"
    /\ Done(u) /\ query[u].op \in {"find_by_subject_str", "find_by_sha1"}
    /\ result[u].val # <<>>
    /\ IsFind(log[u][1])

(* -------------------------------- C18 ---------------------------------- *)
(* this step is a native find call of call t *)
FindCallBy(t) ==
  /\ Len(log'[t]) = Len(log[t]) + 1
  /\ IsFind(log'[t][Len(log'[t])])

(* C18: as long as a search runs, the store it runs on is live and not    *)
(* closed; every native find call is made on a store that is not closed   *)
(* and is still not closed when the call returns; and the step that       *)
(* closes a store is taken when no search runs on it.                     *)
C18_NoFindOnClosedStore ==
  /\ [](\A t \in Calls :
          Searching(t) => hstate[store[t]] = "live" /\ closes[store[t]] = 0)
  /\ [][\A t \in Calls :
          FindCallBy(t) =>
            /\ hstate[store[t]] = "live"
            /\ closes[store[t]] = 0 /\ closes'[store[t]] = 0]_vars
  /\ [][\A h \in Handles :
          closes'[h] # closes[h] =>
            \A t \in Calls : store[t] = h => ~Searching(t) /\ ~Searching(t)']_vars

(* two searches have run to their end on a store that is closed by now *)
C18_Witness ==
  \E t, u \in Calls :
    /\ t # u /\ store[t] = store[u]
    /\ Done(t) /\ Len(FindCalls(t)) >= 2
    /\ Done(u) /\ Len(FindCalls(u)) >= 2
    /\ hstate[store[t]] = "dropped" /\ closes[store[t]] = 1

(* -------------------------------- C19 ---------------------------------- *)
(* C19: whatever the length of the slice, the length field of the blob    *)
(* made for it by from_pkcs12 or by find_by_sha1 holds that length.       *)
C19_LengthFieldIsSliceLength ==
  conv.fn # "none" => u32_as_usize(conv.cbData) = conv.len

====
